---- MODULE Spec2Model ----
(***************************************************************************)
(* EastRandomCrop of mmocr/datasets/pipelines/dbnet_transforms.py:         *)
(* crop_area (occupancy projection, split_regions, the bounded sampling    *)
(* loop) and the crop-and-remap body of __call__.                          *)
(*                                                                         *)
(* Numbers.  Pixel coordinates are integers.  min_crop_side_ratio and      *)
(* scale are floats in the source; here they are exact fractions           *)
(* <<num, den>> with den > 0, and a remapped coordinate (p - crop) * scale *)
(* is stored as its numerator (p - crop) * num over the denominator of     *)
(* scale.  The ratios of the model are dyadic, so the float products       *)
(* ratio * w are exact.                                                    *)
(***************************************************************************)
EXTENDS Integers, Sequences, FiniteSets

VARIABLES
    target_size,          \* self.target_size = <<targetW, targetH>>
    max_tries,            \* self.max_tries
    min_crop_side_ratio,  \* self.min_crop_side_ratio, a fraction <<num, den>>
    results,              \* the results dict passed to __call__
    orig,                 \* the results dict as it was passed in
    locals,               \* crop_area's local variables while it runs
    rng_calls,            \* number of np.random.choice calls made so far
    crop,                 \* <<crop_x, crop_y, crop_w, crop_h>> once crop_area returned
    scale,                \* __call__'s scale, a fraction <<num, den>>
    w,                    \* __call__'s w = int(crop_w * scale)
    h,                    \* __call__'s h = int(crop_h * scale)
    axis,                 \* argument of a stand-alone split_regions call
    regions,              \* its return value
    pc                    \* position in the code

vars == <<target_size, max_tries, min_crop_side_ratio, results, orig, locals,
          rng_calls, crop, scale, w, h, axis, regions, pc>>

----------------------------------------------------------------------------
(* Bounds of the model *)

MaxW == 5
MaxTries == 2
MaxTarget == 4
MaxCrop == 3
MaxAxis == 6

----------------------------------------------------------------------------
(* Helpers: numpy reductions and slices on sequences *)

Range(s) == {s[k] : k \in DOMAIN s}

Min(S) == CHOOSE m \in S : \A n \in S : m <= n

Max(S) == CHOOSE m \in S : \A n \in S : m >= n

\* poly[:, 0].min() and friends, poly a sequence of points <<x, y>>
MinX(poly) == Min({poly[k][1] : k \in DOMAIN poly})

MaxX(poly) == Max({poly[k][1] : k \in DOMAIN poly})

MinY(poly) == Min({poly[k][2] : k \in DOMAIN poly})

MaxY(poly) == Max({poly[k][2] : k \in DOMAIN poly})

\* a[lo:hi] of a 0-based numpy array held as a 1-based sequence, 0 <= lo
Slice(a, lo, hi) ==
    IF hi <= lo THEN <<>>
    ELSE [k \in 1 .. (Min({hi, Len(a)}) - Min({lo, Len(a)})) |-> a[lo + k]]

\* np.clip(v, lo, hi)
Clip(v, lo, hi) == IF v < lo THEN lo ELSE IF v > hi THEN hi ELSE v

----------------------------------------------------------------------------
(* The two rectangle predicates (lines 178-192) *)

is_poly_in_rect(poly, x, y, rw, rh) ==
    IF MinX(poly) < x \/ MaxX(poly) > x + rw THEN FALSE
    ELSE IF MinY(poly) < y \/ MaxY(poly) > y + rh THEN FALSE
    ELSE TRUE

is_poly_outside_rect(poly, x, y, rw, rh) ==
    IF MaxX(poly) < x \/ MinX(poly) > x + rw THEN TRUE
    ELSE IF MaxY(poly) < y \/ MinY(poly) > y + rh THEN TRUE
    ELSE FALSE

----------------------------------------------------------------------------
(* split_regions (lines 194-202): the loop over i = 1 .. len(axis) - 1;     *)
(* axis[i] of the source is axis[i + 1] here.                              *)

RECURSIVE SplitLoop(_, _, _, _)
SplitLoop(ax, i, min_axis, regs) ==
    IF i >= Len(ax) THEN regs
    ELSE IF ax[i + 1] # ax[i] + 1
         THEN SplitLoop(ax, i + 1, i, Append(regs, Slice(ax, min_axis, i)))
         ELSE SplitLoop(ax, i + 1, min_axis, regs)

split_regions(ax) == SplitLoop(ax, 1, 0, <<>>)

----------------------------------------------------------------------------
(* The random selections (lines 204-221), as the set of their outcomes     *)

\* np.random.choice(axis, size=2), min, max, clip
random_select(ax, max_size) ==
    {<<Clip(Min({a, b}), 0, max_size - 1), Clip(Max({a, b}), 0, max_size - 1)>> :
        a \in Range(ax), b \in Range(ax)}

\* np.random.choice(len(regions), 2), then one value out of each chosen region
region_wise_random_select(regs) ==
    UNION {{<<Min({v1, v2}), Max({v1, v2})>> :
                v1 \in Range(regs[sel[1]]), v2 \in Range(regs[sel[2]])} :
           sel \in (DOMAIN regs) \X (DOMAIN regs)}

\* lines 247-254: which selection an axis gets, and the np.random.choice calls it costs
SelectOnAxis(regs, ax, max_size) ==
    IF Len(regs) > 1 THEN region_wise_random_select(regs)
    ELSE random_select(ax, max_size)

ChoiceCalls(regs) == IF Len(regs) > 1 THEN 3 ELSE 1

----------------------------------------------------------------------------
(* Occupancy projection of crop_area (lines 225-238)                       *)

Zeros(n) == [k \in 1 .. n |-> 0]

\* a slip of MarkOccupied: arr[lo:hi - 1] = 1
MarkOccupiedShort(arr, lo, hi) ==
    [k \in 1 .. Len(arr) |-> IF lo <= k - 1 /\ k - 1 < hi - 1 THEN 1 ELSE arr[k]]

\* arr[lo:hi] = 1
MarkOccupied(arr, lo, hi) ==
    [k \in 1 .. Len(arr) |-> IF lo <= k - 1 /\ k - 1 < hi THEN 1 ELSE arr[k]]

RECURSIVE ProjectW(_, _, _)
ProjectW(polys, k, w_array) ==
    IF k > Len(polys) THEN w_array
    ELSE ProjectW(polys, k + 1, MarkOccupied(w_array, MinX(polys[k]), MaxX(polys[k])))

RECURSIVE ProjectH(_, _, _)
ProjectH(polys, k, h_array) ==
    IF k > Len(polys) THEN h_array
    ELSE ProjectH(polys, k + 1, MarkOccupied(h_array, MinY(polys[k]), MaxY(polys[k])))

\* a slip of WhereZero: np.where(arr == 1)[0]
WhereOne(arr) ==
    LET idx == [k \in 1 .. Len(arr) |-> k - 1]
    IN  SelectSeq(idx, LAMBDA v : arr[v + 1] = 1)

\* np.where(arr == 0)[0]
WhereZero(arr) ==
    LET idx == [k \in 1 .. Len(arr) |-> k - 1]
    IN  SelectSeq(idx, LAMBDA v : arr[v + 1] = 0)

\* a slip of AreaTooSmall: "and" for "or"
AreaTooSmallBoth(xmin, xmax, ymin, ymax, ratio, iw, ih) ==
    /\ (xmax - xmin) * ratio[2] < ratio[1] * iw
    /\ (ymax - ymin) * ratio[2] < ratio[1] * ih

\* lines 256-257, min_crop_side_ratio = <<num, den>>
AreaTooSmall(xmin, xmax, ymin, ymax, ratio, iw, ih) ==
    \/ (xmax - xmin) * ratio[2] < ratio[1] * iw
    \/ (ymax - ymin) * ratio[2] < ratio[1] * ih

\* lines 260-265: num_poly_in_rect > 0
SomePolyInRect(polys, xmin, ymin, xmax, ymax) ==
    \E k \in DOMAIN polys :
        ~is_poly_outside_rect(polys[k], xmin, ymin, xmax - xmin, ymax - ymin)

----------------------------------------------------------------------------
(* __call__'s arithmetic and remap (lines 139-171)                         *)

\* min(scale_w, scale_h) of scale_w = target_w / crop_w, scale_h = target_h / crop_h
MinScale(ts, crop_w, crop_h) ==
    IF ts[1] * crop_h <= ts[2] * crop_w THEN <<ts[1], crop_w>> ELSE <<ts[2], crop_h>>

\* a variant of ScaledSide: round(side * scale), halves up
ScaledSideRounded(side, sc) == (2 * side * sc[1] + sc[2]) \div (2 * sc[2])

\* int(side * scale): truncation of a non-negative product
ScaledSide(side, sc) == (side * sc[1]) \div sc[2]

\* box.reshape(2, 2) and poly.flatten()
Reshape22(box) == <<<<box[1], box[2]>>, <<box[3], box[4]>>>>

Flatten22(poly) == <<poly[1][1], poly[1][2], poly[2][1], poly[2][2]>>

\* a slip of Remap: poly * scale, the crop origin forgotten
RemapNoShift(poly, crop_x, crop_y, sc) ==
    [k \in DOMAIN poly |-> <<poly[k][1] * sc[1], poly[k][2] * sc[1]>>]

\* (poly - (crop_x, crop_y)) * scale, as numerators over the denominator of scale
Remap(poly, crop_x, crop_y, sc) ==
    [k \in DOMAIN poly |-> <<(poly[k][1] - crop_x) * sc[1], (poly[k][2] - crop_y) * sc[1]>>]

\* a slip of OutsideOutput: w and h swapped
OutsideOutputSwapped(rpoly, sc, sw, sh) ==
    is_poly_outside_rect(rpoly, 0, 0, sh * sc[2], sw * sc[2])

\* the test of lines 156 and 166 on a remapped shape: rectangle (0, 0, w, h)
OutsideOutput(rpoly, sc, sw, sh) ==
    is_poly_outside_rect(rpoly, 0, 0, sw * sc[2], sh * sc[2])

\* lines 152-158: the bbox loop
RECURSIVE BboxLines(_, _, _, _, _, _, _)
BboxLines(boxes, k, crop_x, crop_y, sc, sw, sh) ==
    IF k > Len(boxes) THEN <<>>
    ELSE LET poly == Remap(Reshape22(boxes[k]), crop_x, crop_y, sc)
             rest == BboxLines(boxes, k + 1, crop_x, crop_y, sc, sw, sh)
         IN  IF ~OutsideOutput(poly, sc, sw, sh)
             THEN <<Flatten22(poly)>> \o rest
             ELSE rest

\* lines 161-168: the mask loop; every kept polygon is appended as [poly]
RECURSIVE MaskPolys(_, _, _, _, _, _, _)
MaskPolys(masks, k, crop_x, crop_y, sc, sw, sh) ==
    IF k > Len(masks) THEN <<>>
    ELSE LET poly == Remap(masks[k], crop_x, crop_y, sc)
             rest == MaskPolys(masks, k + 1, crop_x, crop_y, sc, sw, sh)
         IN  IF ~OutsideOutput(poly, sc, sw, sh)
             THEN <<<<poly>>>> \o rest
             ELSE rest

\* mmdet's PolygonMasks(masks, height, width)
PolygonMasks(masks, height, width) ==
    [masks |-> masks, height |-> height, width |-> width]

----------------------------------------------------------------------------
(* State *)

NoResults == [img_shape |-> <<>>, gt_bboxes |-> <<>>, gt_masks |-> <<>>, gt_labels |-> <<>>]

NoLocals ==
    [h_array |-> <<>>, w_array |-> <<>>, h_axis |-> <<>>, w_axis |-> <<>>,
     h_regions |-> <<>>, w_regions |-> <<>>, i |-> 0]

NoCrop == <<>>

NoScale == <<>>

\* img.shape[1] and img.shape[0] of the image passed in
ImgW == orig.img_shape[2]

ImgH == orig.img_shape[1]

----------------------------------------------------------------------------
(* Inputs *)

\* a text box with its four corners, as in [(10,10),(20,10),(20,20),(10,20)]
Rect4(x1, y1, x2, y2) == <<<<x1, y1>>, <<x2, y1>>, <<x2, y2>>, <<x1, y2>>>>

Intervals(n) == {iv \in (0 .. n) \X (0 .. n) : iv[1] < iv[2]}

\* text boxes with integer corners in the closed image extent
TextBoxes(iw, ih) ==
    {Rect4(xs[1], ys[1], xs[2], ys[2]) : xs \in Intervals(iw), ys \in Intervals(ih)}

SeqsUpTo(S, n) == UNION {[1 .. k -> S] : k \in 0 .. n}

\* the bounding box of a polygon, flat as gt_bboxes holds it
BboxOf(poly) == <<MinX(poly), MinY(poly), MaxX(poly), MaxY(poly)>>

\* a results dict: the image shape, the text polygons, their bounding boxes and labels
ResultsOf(iw, ih, m) ==
    [img_shape |-> <<ih, iw>>,
     gt_bboxes |-> [k \in DOMAIN m |-> BboxOf(m[k])],
     gt_masks  |-> m,
     gt_labels |-> [k \in DOMAIN m |-> 0]]

Ratios == {<<0, 1>>, <<1, 2>>}

Heights == 1 .. 3

PolyCounts == 0 .. 2

PipelineTargets == {<<MaxTarget, MaxTarget - 1>>}

\* max_tries: a loop that never runs, and one of MaxTries iterations
TriesValues == {0, MaxTries}

\* the polygon lists an image of iw x ih is called with
PolyLists(iw, ih) == UNION {[1 .. n -> TextBoxes(iw, ih)] : n \in PolyCounts}

----------------------------------------------------------------------------
(* __call__ from line 139 on, given the results dict and the rectangle c   *)
(* that crop_area returned.  A crop of width or height 0 makes line 139 or 140 divide by  *)
(* zero (ZeroDivisionError; with numpy integers inf or nan, and then int() *)
(* or the resize of an empty slice raises).  A scaled side of 0 is handed  *)
(* to mmcv.imresize, which may raise or not.                               *)

CallBody(res, c) ==
    LET crop_x == c[1]
        crop_y == c[2]
        crop_w == c[3]
        crop_h == c[4]
    IN  /\ crop' = c
        /\ IF crop_w = 0 \/ crop_h = 0
           THEN /\ pc' = "error"
                /\ results' = res
                /\ UNCHANGED <<scale, w, h>>
           ELSE \E sc \in {MinScale(target_size, crop_w, crop_h)} :
                \E sh \in {ScaledSide(crop_h, sc)}, sw \in {ScaledSide(crop_w, sc)} :
                   /\ scale' = sc
                   /\ h' = sh
                   /\ w' = sw
                   /\ \/ /\ sw = 0 \/ sh = 0
                         /\ pc' = "error"
                         /\ results' = res
                      \/ \E ms \in {MaskPolys(res.gt_masks, 1, crop_x, crop_y, sc, sw, sh)} :
                            /\ results' =
                                 [img_shape |-> <<target_size[2], target_size[1]>>,
                                  gt_bboxes |-> BboxLines(res.gt_bboxes, 1, crop_x, crop_y,
                                                          sc, sw, sh),
                                  gt_masks  |-> PolygonMasks(ms, target_size[1], target_size[2]),
                                  gt_labels |-> [k \in DOMAIN ms |-> 0]]
                            /\ pc' = "done"

----------------------------------------------------------------------------
(* The pipeline: an EastRandomCrop constructed, then __call__(results)     *)

Init ==
    /\ target_size \in PipelineTargets
    /\ max_tries \in TriesValues
    /\ min_crop_side_ratio \in Ratios
    /\ results = NoResults
    /\ orig = NoResults
    /\ locals = NoLocals
    /\ rng_calls = 0
    /\ crop = NoCrop
    /\ scale = NoScale
    /\ w = 0
    /\ h = 0
    /\ axis = <<>>
    /\ regions = <<>>
    /\ pc = "start"

\* __call__ entered; crop_area, lines 224-244: projection and split_regions,
\* or the early return and with it the rest of __call__
call_enter ==
    /\ pc = "start"
    /\ \E iw \in 1 .. MaxW, ih \in Heights :
       \E polys \in PolyLists(iw, ih) :
       \E r \in {ResultsOf(iw, ih, polys)},
          h_array \in {ProjectH(polys, 1, Zeros(ih))},
          w_array \in {ProjectW(polys, 1, Zeros(iw))} :
       \E h_axis \in {WhereZero(h_array)}, w_axis \in {WhereZero(w_array)} :
          /\ orig' = r
          /\ IF Len(h_axis) = 0 \/ Len(w_axis) = 0
             THEN /\ locals' = NoLocals
                  /\ CallBody(r, <<0, 0, iw, ih>>)
             ELSE /\ results' = r
                  /\ locals' = [h_array |-> h_array, w_array |-> w_array,
                                h_axis |-> h_axis, w_axis |-> w_axis,
                                h_regions |-> split_regions(h_axis),
                                w_regions |-> split_regions(w_axis),
                                i |-> 0]
                  /\ pc' = "loop"
                  /\ UNCHANGED <<crop, scale, w, h>>
    /\ UNCHANGED <<target_size, max_tries, min_crop_side_ratio,
                   rng_calls, axis, regions>>

\* crop_area, lines 246-268: one iteration of the sampling loop; an accepted
\* candidate is returned and the rest of __call__ runs
crop_area_try ==
    /\ pc = "loop"
    /\ locals.i < max_tries
    /\ \E xs \in SelectOnAxis(locals.w_regions, locals.w_axis, ImgW),
          ys \in SelectOnAxis(locals.h_regions, locals.h_axis, ImgH) :
          LET xmin == xs[1]
              xmax == xs[2]
              ymin == ys[1]
              ymax == ys[2]
          IN  IF AreaTooSmall(xmin, xmax, ymin, ymax, min_crop_side_ratio, ImgW, ImgH)
              THEN /\ locals' = [locals EXCEPT !.i = @ + 1]
                   /\ UNCHANGED <<results, crop, scale, w, h, pc>>
              ELSE IF SomePolyInRect(results.gt_masks, xmin, ymin, xmax, ymax)
              THEN /\ locals' = NoLocals
                   /\ CallBody(results, <<xmin, ymin, xmax - xmin, ymax - ymin>>)
              ELSE /\ locals' = [locals EXCEPT !.i = @ + 1]
                   /\ UNCHANGED <<results, crop, scale, w, h, pc>>
    /\ rng_calls' = rng_calls + ChoiceCalls(locals.w_regions) + ChoiceCalls(locals.h_regions)
    /\ UNCHANGED <<target_size, max_tries, min_crop_side_ratio, orig, axis, regions>>

\* crop_area, line 270: the loop ran out; the rest of __call__ runs on the
\* identity crop
crop_area_fallback ==
    /\ pc = "loop"
    /\ locals.i >= max_tries
    /\ locals' = NoLocals
    /\ CallBody(results, <<0, 0, ImgW, ImgH>>)
    /\ UNCHANGED <<target_size, max_tries, min_crop_side_ratio, orig,
                   rng_calls, axis, regions>>

Next ==
    \/ call_enter
    \/ crop_area_try
    \/ crop_area_fallback

Spec == Init /\ [][Next]_vars

----------------------------------------------------------------------------
(* The remap on its own: __call__ from line 139 on, for any target size,   *)
(* any crop rectangle inside the image and any shape around it             *)

TargetSizes == (1 .. MaxTarget) \X (1 .. MaxTarget)

\* the image of the remap runs: room for a crop of MaxCrop with a margin of 1
FrameSide == MaxCrop + 2

\* two-corner shapes (points and segments included), low corner first, from
\* one pixel before the crop to its far edge
CornerShapes ==
    {<<<<xs[1], ys[1]>>, <<xs[2], ys[2]>>>> :
        xs \in {iv \in (0 .. MaxCrop + 1) \X (0 .. MaxCrop + 1) : iv[1] <= iv[2]},
        ys \in {iv \in (0 .. MaxCrop + 1) \X (0 .. MaxCrop + 1) : iv[1] <= iv[2]}}

CallInit ==
    /\ target_size \in TargetSizes
    /\ max_tries = 10
    /\ min_crop_side_ratio = <<1, 10>>
    /\ results = NoResults
    /\ orig = NoResults
    /\ locals = NoLocals
    /\ rng_calls = 0
    /\ crop = NoCrop
    /\ scale = NoScale
    /\ w = 0
    /\ h = 0
    /\ axis = <<>>
    /\ regions = <<>>
    /\ pc = "start"

\* __call__ with crop_area returning some rectangle of the image
call_with_crop ==
    /\ pc = "start"
    /\ \E crop_w \in 1 .. MaxCrop, crop_h \in 1 .. MaxCrop :
       \E shapes \in SeqsUpTo(CornerShapes, 1) :
       \E r \in {ResultsOf(FrameSide, FrameSide, shapes)} :
          /\ orig' = r
          /\ CallBody(r, <<1, 1, crop_w, crop_h>>)
    /\ UNCHANGED <<target_size, max_tries, min_crop_side_ratio, locals,
                   rng_calls, axis, regions>>

CallNext == call_with_crop

CallSpec == CallInit /\ [][CallNext]_vars

----------------------------------------------------------------------------
(* split_regions on its own: any strictly increasing array of indices      *)

RECURSIVE SortedSeq(_)
SortedSeq(S) ==
    IF S = {} THEN <<>>
    ELSE LET m == Min(S) IN <<m>> \o SortedSeq(S \ {m})

SplitInit ==
    /\ target_size = <<640, 640>>
    /\ max_tries = 10
    /\ min_crop_side_ratio = <<1, 10>>
    /\ results = NoResults
    /\ orig = NoResults
    /\ locals = NoLocals
    /\ rng_calls = 0
    /\ crop = NoCrop
    /\ scale = NoScale
    /\ w = 0
    /\ h = 0
    /\ axis \in {SortedSeq(S) : S \in SUBSET (0 .. MaxAxis - 1)}
    /\ regions = <<>>
    /\ pc = "split_regions"

split_regions_call ==
    /\ pc = "split_regions"
    /\ regions' = split_regions(axis)
    /\ pc' = "split_done"
    /\ UNCHANGED <<target_size, max_tries, min_crop_side_ratio, results, orig,
                   locals, rng_calls, crop, scale, w, h, axis>>

SplitNext == split_regions_call

SplitSpec == SplitInit /\ [][SplitNext]_vars

----------------------------------------------------------------------------
(* Properties of crop_area                                                 *)

\* crop_area has returned (its rectangle is in crop)
Returned == crop # NoCrop

IdentityCrop == <<0, 0, ImgW, ImgH>>

\* the columns and rows a polygon occupies: [min_x, max_x) and [min_y, max_y)
PolyCols(poly) == MinX(poly) .. MaxX(poly) - 1

PolyRows(poly) == MinY(poly) .. MaxY(poly) - 1

\* the columns and rows of the returned rectangle: [x, x + width), [y, y + height)
CropCols == crop[1] .. crop[1] + crop[3] - 1

CropRows == crop[2] .. crop[2] + crop[4] - 1

\* C1: the rectangle crop_area returns has width >= 1 and height >= 1 and
\* lies inside the image: x >= 0, y >= 0, x + width <= W, y + height <= H,
\* for every configuration.
C1_CropInsideImage ==
    Returned =>
        /\ crop[3] >= 1
        /\ crop[4] >= 1
        /\ crop[1] >= 0
        /\ crop[2] >= 0
        /\ crop[1] + crop[3] <= ImgW
        /\ crop[2] + crop[4] <= ImgH

\* C1, with a positive min_crop_side_ratio only: the same bounds hold.
C1_PositiveRatio ==
    (Returned /\ min_crop_side_ratio[1] > 0) => C1_CropInsideImage

\* C2: no returned crop splits a text region: every polygon's occupied
\* columns lie all inside or all outside the crop's columns, and likewise
\* its rows, whatever the random draws and on the identity fallback too.
C2_NoTextSplit ==
    Returned =>
        \A k \in DOMAIN orig.gt_masks :
            LET poly == orig.gt_masks[k]
            IN  /\ \/ PolyCols(poly) \subseteq CropCols
                   \/ PolyCols(poly) \cap CropCols = {}
                /\ \/ PolyRows(poly) \subseteq CropRows
                   \/ PolyRows(poly) \cap CropRows = {}

\* a sampled crop that holds one text box whole and leaves another out
C2_Witness ==
    /\ pc = "done"
    /\ crop # IdentityCrop
    /\ \E k \in DOMAIN orig.gt_masks :
          /\ PolyCols(orig.gt_masks[k]) \subseteq CropCols
          /\ PolyRows(orig.gt_masks[k]) \subseteq CropRows
    /\ \E k \in DOMAIN orig.gt_masks :
          PolyCols(orig.gt_masks[k]) \cap CropCols = {}

\* C3: a rectangle returned from inside the sampling loop (anything but the
\* identity fallback) has width >= min_crop_side_ratio * W and height >=
\* min_crop_side_ratio * H, and some polygon is not fully outside it
\* (not: max_x < x or min_x > x + width or max_y < y or min_y > y + height).
C3_SampledCropAccepted ==
    (Returned /\ crop # IdentityCrop) =>
        /\ crop[3] * min_crop_side_ratio[2] >= min_crop_side_ratio[1] * ImgW
        /\ crop[4] * min_crop_side_ratio[2] >= min_crop_side_ratio[1] * ImgH
        /\ \E k \in DOMAIN orig.gt_masks :
              LET poly == orig.gt_masks[k]
              IN  ~ \/ MaxX(poly) < crop[1]
                    \/ MinX(poly) > crop[1] + crop[3]
                    \/ MaxY(poly) < crop[2]
                    \/ MinY(poly) > crop[2] + crop[4]

\* a sampled crop under a positive ratio, found on the second try
C3_Witness ==
    /\ Returned
    /\ crop # IdentityCrop
    /\ min_crop_side_ratio[1] > 0
    /\ rng_calls > 2

\* every column, or every row, of the image is occupied by some polygon
AxisFull ==
    \/ \A c \in 0 .. ImgW - 1 : \E k \in DOMAIN orig.gt_masks : c \in PolyCols(orig.gt_masks[k])
    \/ \A r \in 0 .. ImgH - 1 : \E k \in DOMAIN orig.gt_masks : r \in PolyRows(orig.gt_masks[k])

\* C4: degenerate inputs give the identity crop: (i) with no polygons
\* crop_area returns (0, 0, W, H) for every max_tries; (ii) with a fully
\* occupied row axis or column axis it returns (0, 0, W, H) before any
\* sampling (no random draw made).
C4_DegenerateIdentity ==
    Returned =>
        /\ orig.gt_masks = <<>> => crop = IdentityCrop
        /\ AxisFull => (crop = IdentityCrop /\ rng_calls = 0)

\* a full axis, with sampling allowed by max_tries
C4_Witness ==
    /\ Returned
    /\ AxisFull
    /\ max_tries > 0
    /\ orig.gt_masks # <<>>

\* the other case of C4: no polygons, the loop ran and fell back
C4_WitnessEmpty ==
    /\ Returned
    /\ orig.gt_masks = <<>>
    /\ rng_calls > 0

----------------------------------------------------------------------------
(* Properties of the remap.  A remapped coordinate is held as its          *)
(* numerator over scale[2], so v' < n reads v < n * scale[2].              *)

\* (p - (cropX, cropY)) * scale, point by point
Shifted(poly) ==
    [k \in DOMAIN poly |->
        <<(poly[k][1] - crop[1]) * scale[1], (poly[k][2] - crop[2]) * scale[1]>>]

\* maxX < 0 or minX > scaledW or maxY < 0 or minY > scaledH
FullyOutside(t) ==
    \/ MaxX(t) < 0
    \/ MinX(t) > w * scale[2]
    \/ MaxY(t) < 0
    \/ MinY(t) > h * scale[2]

ShiftedMasks == [k \in DOMAIN orig.gt_masks |-> Shifted(orig.gt_masks[k])]

ShiftedBoxes ==
    [k \in DOMAIN orig.gt_bboxes |->
        Shifted(<<<<orig.gt_bboxes[k][1], orig.gt_bboxes[k][2]>>,
                  <<orig.gt_bboxes[k][3], orig.gt_bboxes[k][4]>>>>)]

KeptMasks == SelectSeq(ShiftedMasks, LAMBDA t : ~FullyOutside(t))

KeptBoxes == SelectSeq(ShiftedBoxes, LAMBDA t : ~FullyOutside(t))

\* C5: after __call__ each bbox field and each mask field holds, in input
\* order, exactly the shifted-and-scaled shapes that are not fully outside
\* (0, 0, scaledW, scaledH); a shape is dropped iff it is fully outside,
\* and none is clipped.
C5_KeptInOrder ==
    pc = "done" =>
        LET km == KeptMasks
            kb == KeptBoxes
        IN  /\ results.gt_masks.masks = [k \in DOMAIN km |-> <<km[k]>>]
            /\ results.gt_bboxes =
                  [k \in DOMAIN kb |->
                      <<kb[k][1][1], kb[k][1][2], kb[k][2][1], kb[k][2][2]>>]

\* two text boxes, the first dropped and the second kept
C5_Witness ==
    /\ pc = "done"
    /\ Len(orig.gt_masks) = 2
    /\ FullyOutside(ShiftedMasks[1])
    /\ ~FullyOutside(ShiftedMasks[2])
    /\ Len(results.gt_masks.masks) = 1
    /\ Len(results.gt_bboxes) = 1

\* all remapped points of a kept polygon, over every kept polygon
KeptPoints ==
    UNION {Range(results.gt_masks.masks[k][1]) : k \in DOMAIN results.gt_masks.masks}

\* every vertex of every input polygon is a pixel of the image
VerticesInsideImage ==
    \A k \in DOMAIN orig.gt_masks : \A p \in Range(orig.gt_masks[k]) :
        /\ 0 <= p[1] /\ p[1] <= ImgW - 1
        /\ 0 <= p[2] /\ p[2] <= ImgH - 1

\* C6: with integer vertices inside the image, every polygon kept by
\* __call__ has all its remapped coordinates in the output frame:
\* 0 <= x' < targetW and 0 <= y' < targetH.
C6_KeptInsideFrame ==
    (pc = "done" /\ VerticesInsideImage) =>
        \A p \in KeptPoints :
            /\ 0 <= p[1] /\ p[1] < target_size[1] * scale[2]
            /\ 0 <= p[2] /\ p[2] < target_size[2] * scale[2]

\* C6 as amended: a kept polygon lies within 0 <= x' <= cropW * scale <=
\* targetW and 0 <= y' <= cropH * scale <= targetH (upper ends included),
\* or it lies wholly on or beyond one edge of the crop, which it only
\* touches.
C6_KeptInsideOrTouching ==
    pc = "done" =>
        /\ crop[3] * scale[1] <= target_size[1] * scale[2]
        /\ crop[4] * scale[1] <= target_size[2] * scale[2]
        /\ \A k \in DOMAIN results.gt_masks.masks :
              LET t == results.gt_masks.masks[k][1]
              IN  \/ /\ 0 <= MinX(t) /\ MaxX(t) <= crop[3] * scale[1]
                     /\ 0 <= MinY(t) /\ MaxY(t) <= crop[4] * scale[1]
                  \/ MaxX(t) <= 0
                  \/ MinX(t) >= crop[3] * scale[1]
                  \/ MaxY(t) <= 0
                  \/ MinY(t) >= crop[4] * scale[1]

\* a sampled crop that keeps one polygon inside it and one that touches it
\* from the left
C6_Witness ==
    /\ pc = "done"
    /\ crop # IdentityCrop
    /\ VerticesInsideImage
    /\ \E k \in DOMAIN results.gt_masks.masks :
          LET t == results.gt_masks.masks[k][1]
          IN  /\ 0 < MinX(t) /\ MaxX(t) <= crop[3] * scale[1]
              /\ 0 <= MinY(t) /\ MaxY(t) <= crop[4] * scale[1]
    /\ \E k \in DOMAIN results.gt_masks.masks :
          MinX(results.gt_masks.masks[k][1]) < 0

\* C10: after __call__ the frame recorded with the masks agrees with the
\* raster: the raster is targetH high and targetW wide, and PolygonMasks
\* has height targetH and width targetW, for non-square targets too.
C10_MaskFrameIsRaster ==
    pc = "done" =>
        /\ results.img_shape = <<target_size[2], target_size[1]>>
        /\ results.gt_masks.height = target_size[2]
        /\ results.gt_masks.width = target_size[1]

\* C7: a shape inside the crop (is_poly_in_rect holds for the crop) is never
\* dropped: its shifted-and-scaled image is not fully outside
\* (0, 0, scaledW, scaledH).  Stated for the calls that run to their end
\* with scaledW >= 1 and scaledH >= 1, where the resize is well defined.
C7_InsideCropIsKept ==
    (pc = "done" /\ w >= 1 /\ h >= 1) =>
        \A k \in DOMAIN orig.gt_masks :
            LET poly == orig.gt_masks[k]
            IN  is_poly_in_rect(poly, crop[1], crop[2], crop[3], crop[4])
                => ~FullyOutside(Shifted(poly))

\* C9: scale = min(targetW / cropW, targetH / cropH), and scaledW, scaledH
\* are cropW * scale, cropH * scale rounded to the nearest integer, with
\* scaledW <= targetW and scaledH <= targetH.  Stated for the calls that run
\* to their end with scaledW >= 1 and scaledH >= 1.
C9_ScaledSidesRounded ==
    (pc = "done" /\ w >= 1 /\ h >= 1) =>
        /\ scale[1] * crop[3] <= target_size[1] * scale[2]
        /\ scale[1] * crop[4] <= target_size[2] * scale[2]
        /\ \/ scale[1] * crop[3] = target_size[1] * scale[2]
           \/ scale[1] * crop[4] = target_size[2] * scale[2]
        /\ 2 * (crop[3] * scale[1] - w * scale[2]) <= scale[2]
        /\ 2 * (w * scale[2] - crop[3] * scale[1]) <= scale[2]
        /\ 2 * (crop[4] * scale[1] - h * scale[2]) <= scale[2]
        /\ 2 * (h * scale[2] - crop[4] * scale[1]) <= scale[2]
        /\ w <= target_size[1]
        /\ h <= target_size[2]

\* C9 as amended: scale = min(targetW / cropW, targetH / cropH), and
\* scaledW, scaledH are cropW * scale, cropH * scale truncated to an
\* integer, with scaledW <= targetW and scaledH <= targetH.
C9_ScaledSidesTruncated ==
    scale # NoScale =>
        /\ scale[1] * crop[3] <= target_size[1] * scale[2]
        /\ scale[1] * crop[4] <= target_size[2] * scale[2]
        /\ \/ scale[1] * crop[3] = target_size[1] * scale[2]
           \/ scale[1] * crop[4] = target_size[2] * scale[2]
        /\ w * scale[2] <= crop[3] * scale[1]
        /\ crop[3] * scale[1] < (w + 1) * scale[2]
        /\ h * scale[2] <= crop[4] * scale[1]
        /\ crop[4] * scale[1] < (h + 1) * scale[2]
        /\ w <= target_size[1]
        /\ h <= target_size[2]

\* a finished call whose scaled height lost a fraction above one half
C9_Witness ==
    /\ pc = "done"
    /\ h >= 1
    /\ 2 * (crop[4] * scale[1] - h * scale[2]) > scale[2]
    /\ w = target_size[1]

----------------------------------------------------------------------------
(* Property of split_regions                                               *)

RECURSIVE Concat(_)
Concat(ss) == IF ss = <<>> THEN <<>> ELSE Head(ss) \o Concat(Tail(ss))

\* C8: split_regions returns all maximal runs of consecutive indices, in
\* order: every region is a non-empty run of consecutive indices, adjacent
\* regions are separated by a missing index, and the regions concatenated
\* give back the input array (the last run included).
C8_AllMaximalRuns ==
    pc = "split_done" =>
        /\ \A r \in DOMAIN regions :
              /\ regions[r] # <<>>
              /\ \A k \in 1 .. Len(regions[r]) - 1 : regions[r][k + 1] = regions[r][k] + 1
        /\ \A r \in 1 .. Len(regions) - 1 :
              regions[r + 1][1] > regions[r][Len(regions[r])] + 1
        /\ Concat(regions) = axis

====
